---- MODULE Spec2Model ----
(***************************************************************************)
(* Money-market accounting core.                                           *)
(*                                                                         *)
(*   custody_bluna  : the collateral ledger (collateral.rs, state.rs)      *)
(*   liquidation    : the bid book storage and its two indices (state.rs)  *)
(*   distribution_model : the emission rate calculator (contract.rs)       *)
(*                                                                         *)
(* Addresses (Addr) are byte strings, modelled as sequences of small       *)
(* naturals.  Uint256 / Decimal256 values are naturals.  An Option<T> is a *)
(* sequence of length 0 (None) or 1 (Some).  Every handler is an operator  *)
(* from the storage before the call to the storage after it, the result    *)
(* returned and the outbound messages attached to the response; one        *)
(* action per handler applies it to inputs drawn from small sets.          *)
(***************************************************************************)
EXTENDS Integers, Sequences, FiniteSets, TLC

VARIABLES
    config,        \* custody: the Config singleton (state.rs KEY_CONFIG)
    borrowers,     \* custody: the PREFIX_BORROWER bucket, key -> BorrowerInfo
    call,          \* custody: the latest call, its result and its messages
    bid,           \* liquidation: the PREFIX_BID bucket, key bytes -> Bid
    bid_by_user,   \* liquidation: PREFIX_BID_BY_USER, <<bidder, collateral>>
    bid_by_collateral, \* liquidation: PREFIX_BID_BY_COLLATERAL, <<collateral, bidder>>
    bid_call,      \* liquidation: the latest call and what it returned
    rate_config,   \* distribution_model: the Config singleton
    rate_call      \* distribution_model: the latest call and what it returned

vars == <<config, borrowers, call, bid, bid_by_user, bid_by_collateral, bid_call,
          rate_config, rate_call>>
ledger_vars == <<config, borrowers, call>>
bid_vars == <<bid, bid_by_user, bid_by_collateral, bid_call>>
rate_vars == <<rate_config, rate_call>>

(***************************************************************************)
(* Bounds of the model.                                                    *)
(***************************************************************************)
\* No borrower is credited beyond MaxBalance (caps the deposits), and a ledger
\* call carries an amount in 0..MaxAmount.
MaxBalance == 4
MaxAmount == 2
\* The cap on a balance in the worked scenario of the specification.
ScenarioMaxBalance == 100
\* A bid's amount is in 1..MaxBidAmount.
MaxBidAmount == 2
\* The most records a paged storage holds.
MaxEntries == 35
\* A Decimal256 is its count of fractional units; the model's unit is
\* 1/DecimalFractional.
DecimalFractional == 2

Amounts == 0..MaxAmount
\* The amounts of the worked scenario: deposit 100, lock 40, liquidate 30,
\* unlock 10 (and the zero amount).
ScenarioAmounts == {0, 10, 30, 40, 100}

None == <<>>
Some(x) == <<x>>

(***************************************************************************)
(* Identities.                                                             *)
(***************************************************************************)
BorrowerA == <<1>>
BorrowerB == <<1, 2>>
Overseer == <<3>>
CollateralToken == <<4>>
MarketContract == <<5>>
LiquidationContract == <<6>>
Liquidator == <<7>>

Borrowers == {BorrowerA, BorrowerB}
\* Anyone may send a message: a borrower (who is not the overseer) or the overseer.
Senders == Borrowers \cup {Overseer}

(***************************************************************************)
(* Storage iteration and pagination, as both state.rs files use them.      *)
(***************************************************************************)
Min(a, b) == IF a <= b THEN a ELSE b

\* The order of the keys in storage: bytes compared left to right, a proper
\* prefix before its extensions.
LexLess(a, b) ==
    \E i \in 1..Len(b) :
        /\ i <= Len(a) + 1
        /\ \A j \in 1..(i - 1) : a[j] = b[j]
        /\ (i = Len(a) + 1 \/ a[i] < b[i])

\* Order::Ascending: the keys of S, least first.
RECURSIVE Ascending(_)
Ascending(S) ==
    IF S = {} THEN <<>>
    ELSE LET least == CHOOSE k \in S : \A j \in S : j = k \/ LexLess(k, j)
         IN  <<least>> \o Ascending(S \ {least})

\* bucket.range(start, None, Order::Ascending): the keys at or after start,
\* ascending.
RangeFrom(keys, start) ==
    Ascending({k \in keys : start = None \/ ~LexLess(k, start[1])})

\* Iterator::take(limit)
Take(seq, n) == SubSeq(seq, 1, Min(n, Len(seq)))

\* String::from_utf8_lossy: bytes below 128 are kept, any other byte becomes
\* U+FFFD (239, 191, 189).
RECURSIVE from_utf8_lossy(_)
from_utf8_lossy(k) ==
    IF k = <<>> THEN <<>>
    ELSE (IF Head(k) < 128 THEN <<Head(k)>> ELSE <<239, 191, 189>>)
            \o from_utf8_lossy(Tail(k))

\* deps.api.addr_validate(..)?.to_string(): the chain's validator accepts the
\* identities it issued, which are the keys of the buckets, and returns them
\* as they are.
addr_validate(human) == [kind |-> "Ok", addr |-> human]

\* .map(..).collect::<StdResult<Vec<_>>>(): the items in order, or the first
\* error among them.
Collect(items) ==
    IF \E i \in 1..Len(items) : items[i].kind # "Ok"
    THEN LET first == CHOOSE i \in 1..Len(items) :
                          /\ items[i].kind # "Ok"
                          /\ \A j \in 1..(i - 1) : items[j].kind = "Ok"
         IN  [kind |-> items[first].kind, list |-> <<>>, msg |-> items[first].msg]
    ELSE [kind |-> "Ok", list |-> [i \in 1..Len(items) |-> items[i].item], msg |-> ""]

(***************************************************************************)
(* custody_bluna/src/state.rs                                              *)
(***************************************************************************)
\* settings for pagination
MAX_LIMIT == 30
DEFAULT_LIMIT == 10

\* "this will set the first key after the provided key, by appending a 1 byte"
calc_range_start(start_after) ==
    IF start_after = None THEN None ELSE Some(Append(start_after[1], 1))

BorrowerInfo(balance, spendable) == [balance |-> balance, spendable |-> spendable]

store_borrower_info(storage, borrower, borrower_info) ==
    [k \in DOMAIN storage \cup {borrower} |->
        IF k = borrower THEN borrower_info ELSE storage[k]]

remove_borrower_info(storage, borrower) ==
    [k \in DOMAIN storage \ {borrower} |-> storage[k]]

read_borrower_info(storage, borrower) ==
    IF borrower \in DOMAIN storage
    THEN storage[borrower]
    ELSE BorrowerInfo(0, 0)

\* moneymarket::custody::BorrowerResponse
BorrowerResponse(borrower, balance, spendable) ==
    [borrower |-> borrower, balance |-> balance, spendable |-> spendable]

read_borrowers_unclamped(storage, start_after, limit) ==
    LET n == IF limit = None THEN DEFAULT_LIMIT ELSE limit[1]
        start == calc_range_start(start_after)
        page == Take(RangeFrom(DOMAIN storage, start), n)
        item(k) ==
            LET borrower == addr_validate(from_utf8_lossy(k))
            IN  IF borrower.kind # "Ok"
                THEN [kind |-> borrower.kind, msg |-> "", item |-> None]
                ELSE [kind |-> "Ok", msg |-> "",
                      item |-> BorrowerResponse(borrower.addr, storage[k].balance,
                                                storage[k].spendable)]
    IN  Collect([i \in 1..Len(page) |-> item(page[i])])

read_borrowers(storage, start_after, limit) ==
    LET n == Min(IF limit = None THEN DEFAULT_LIMIT ELSE limit[1], MAX_LIMIT)
        start == calc_range_start(start_after)
        page == Take(RangeFrom(DOMAIN storage, start), n)
        item(k) ==
            LET borrower == addr_validate(from_utf8_lossy(k))
            IN  IF borrower.kind # "Ok"
                THEN [kind |-> borrower.kind, msg |-> "", item |-> None]
                ELSE [kind |-> "Ok", msg |-> "",
                      item |-> BorrowerResponse(borrower.addr, storage[k].balance,
                                                storage[k].spendable)]
    IN  Collect([i \in 1..Len(page) |-> item(page[i])])

(***************************************************************************)
(* custody_bluna/src/collateral.rs                                         *)
(*                                                                         *)
(* A handler returns [storage, res, msgs].  res.kind is "Ok" or the name   *)
(* of the ContractError variant, res.avail the amount the variant carries  *)
(* (None for Ok and Unauthorized).  A failed Uint256 subtraction panics:   *)
(* the call aborts and the storage is the one before the call.             *)
(***************************************************************************)
Ok == [kind |-> "Ok", avail |-> None]
Err(kind, avail) == [kind |-> kind, avail |-> avail]
Panic == [kind |-> "Panic", avail |-> None]

Return(storage, res, msgs) == [storage |-> storage, res |-> res, msgs |-> msgs]

\* CosmosMsg::Wasm(Execute { contract_addr, msg: Cw20ExecuteMsg::Transfer })
TransferMsg(contract_addr, recipient, amount) ==
    [contract_addr |-> contract_addr, kind |-> "Transfer",
     recipient |-> recipient, amount |-> amount]

\* CosmosMsg::Wasm(Execute { contract_addr, msg: Cw20ExecuteMsg::Send {
\*   contract, amount, msg: ExecuteBid { liquidator, fee_address, repay_address } } })
SendExecuteBidMsg(contract_addr, contract, amount, liquidator, fee_address, repay_address) ==
    [contract_addr |-> contract_addr, kind |-> "Send", contract |-> contract,
     amount |-> amount, liquidator |-> liquidator,
     fee_address |-> fee_address, repay_address |-> repay_address]

\* Mutant of deposit_collateral: only the balance is increased.
deposit_collateral_balance_only(storage, borrower, amount) ==
    LET info == read_borrower_info(storage, borrower)
        updated == BorrowerInfo(info.balance + amount, info.spendable)
    IN  Return(store_borrower_info(storage, borrower, updated), Ok, <<>>)

deposit_collateral(storage, borrower, amount) ==
    LET info == read_borrower_info(storage, borrower)
        updated == BorrowerInfo(info.balance + amount, info.spendable + amount)
    IN  Return(store_borrower_info(storage, borrower, updated), Ok, <<>>)

\* Mutant of withdraw_collateral: only spendable is decreased.
withdraw_collateral_spendable_only(storage, cfg, sender, amount_opt) ==
    LET borrower == sender
        info == read_borrower_info(storage, borrower)
        amount == IF amount_opt = None THEN info.spendable ELSE amount_opt[1]
    IN  IF info.spendable < amount
        THEN Return(storage,
                    Err("WithdrawAmountExceedsSpendable", Some(info.spendable)), <<>>)
        ELSE LET updated == BorrowerInfo(info.balance, info.spendable - amount)
                 stored == IF updated.balance = 0
                           THEN remove_borrower_info(storage, borrower)
                           ELSE store_borrower_info(storage, borrower, updated)
             IN  Return(stored, Ok,
                        <<TransferMsg(cfg.collateral_token, borrower, amount)>>)

\* Mutant of withdraw_collateral: the record is stored even at balance zero.
withdraw_collateral_always_store(storage, cfg, sender, amount_opt) ==
    LET borrower == sender
        info == read_borrower_info(storage, borrower)
        amount == IF amount_opt = None THEN info.spendable ELSE amount_opt[1]
    IN  IF info.spendable < amount
        THEN Return(storage,
                    Err("WithdrawAmountExceedsSpendable", Some(info.spendable)), <<>>)
        ELSE Return(store_borrower_info(storage, borrower,
                        BorrowerInfo(info.balance - amount, info.spendable - amount)),
                    Ok, <<TransferMsg(cfg.collateral_token, borrower, amount)>>)

\* Mutant of withdraw_collateral: the transfer carries the whole spendable.
withdraw_collateral_transfers_spendable(storage, cfg, sender, amount_opt) ==
    LET borrower == sender
        info == read_borrower_info(storage, borrower)
        amount == IF amount_opt = None THEN info.spendable ELSE amount_opt[1]
    IN  IF info.spendable < amount
        THEN Return(storage,
                    Err("WithdrawAmountExceedsSpendable", Some(info.spendable)), <<>>)
        ELSE IF info.balance < amount
        THEN Return(storage, Panic, <<>>)
        ELSE LET updated == BorrowerInfo(info.balance - amount, info.spendable - amount)
                 stored == IF updated.balance = 0
                           THEN remove_borrower_info(storage, borrower)
                           ELSE store_borrower_info(storage, borrower, updated)
             IN  Return(stored, Ok,
                        <<TransferMsg(cfg.collateral_token, borrower, info.spendable)>>)

withdraw_collateral(storage, cfg, sender, amount_opt) ==
    LET borrower == sender
        info == read_borrower_info(storage, borrower)
        amount == IF amount_opt = None THEN info.spendable ELSE amount_opt[1]
    IN  IF info.spendable < amount
        THEN Return(storage,
                    Err("WithdrawAmountExceedsSpendable", Some(info.spendable)), <<>>)
        ELSE IF info.balance < amount
        THEN Return(storage, Panic, <<>>)
        ELSE LET updated == BorrowerInfo(info.balance - amount, info.spendable - amount)
                 stored == IF updated.balance = 0
                           THEN remove_borrower_info(storage, borrower)
                           ELSE store_borrower_info(storage, borrower, updated)
             IN  Return(stored, Ok,
                        <<TransferMsg(cfg.collateral_token, borrower, amount)>>)

\* Mutant of lock_collateral: the amount is checked before the sender.
lock_collateral_amount_first(storage, cfg, sender, borrower, amount) ==
    LET info == read_borrower_info(storage, borrower)
    IN  IF amount > info.spendable
        THEN Return(storage,
                    Err("LockAmountExceedsSpendable", Some(info.spendable)), <<>>)
        ELSE IF sender # cfg.overseer_contract
        THEN Return(storage, Err("Unauthorized", None), <<>>)
        ELSE Return(store_borrower_info(storage, borrower,
                        BorrowerInfo(info.balance, info.spendable - amount)),
                    Ok, <<>>)

\* Mutant of lock_collateral: the error carries the balance, not the spendable.
lock_collateral_reports_balance(storage, cfg, sender, borrower, amount) ==
    IF sender # cfg.overseer_contract
    THEN Return(storage, Err("Unauthorized", None), <<>>)
    ELSE LET info == read_borrower_info(storage, borrower)
         IN  IF amount > info.spendable
             THEN Return(storage,
                         Err("LockAmountExceedsSpendable", Some(info.balance)), <<>>)
             ELSE Return(store_borrower_info(storage, borrower,
                             BorrowerInfo(info.balance, info.spendable - amount)),
                         Ok, <<>>)

\* Mutant of lock_collateral: the record is stored under the sender.
lock_collateral_stores_sender(storage, cfg, sender, borrower, amount) ==
    IF sender # cfg.overseer_contract
    THEN Return(storage, Err("Unauthorized", None), <<>>)
    ELSE LET info == read_borrower_info(storage, borrower)
         IN  IF amount > info.spendable
             THEN Return(storage,
                         Err("LockAmountExceedsSpendable", Some(info.spendable)), <<>>)
             ELSE Return(store_borrower_info(storage, sender,
                             BorrowerInfo(info.balance, info.spendable - amount)),
                         Ok, <<>>)

lock_collateral(storage, cfg, sender, borrower, amount) ==
    IF sender # cfg.overseer_contract
    THEN Return(storage, Err("Unauthorized", None), <<>>)
    ELSE LET info == read_borrower_info(storage, borrower)
         IN  IF amount > info.spendable
             THEN Return(storage,
                         Err("LockAmountExceedsSpendable", Some(info.spendable)), <<>>)
             ELSE Return(store_borrower_info(storage, borrower,
                             BorrowerInfo(info.balance, info.spendable - amount)),
                         Ok, <<>>)

\* Mutant of unlock_collateral: the record is stored before the amount is
\* checked.
unlock_collateral_store_first(storage, cfg, sender, borrower, amount) ==
    IF sender # cfg.overseer_contract
    THEN Return(storage, Err("Unauthorized", None), <<>>)
    ELSE LET info == read_borrower_info(storage, borrower)
             borrowed_amt == info.balance - info.spendable
             stored == store_borrower_info(storage, borrower,
                           BorrowerInfo(info.balance, info.spendable + amount))
         IN  IF amount > borrowed_amt
             THEN Return(stored,
                         Err("UnlockAmountExceedsLocked", Some(borrowed_amt)), <<>>)
             ELSE Return(stored, Ok, <<>>)

\* Mutant of unlock_collateral: the whole locked amount is refused (>=).
unlock_collateral_strict(storage, cfg, sender, borrower, amount) ==
    IF sender # cfg.overseer_contract
    THEN Return(storage, Err("Unauthorized", None), <<>>)
    ELSE LET info == read_borrower_info(storage, borrower)
             borrowed_amt == info.balance - info.spendable
         IN  IF amount >= borrowed_amt
             THEN Return(storage,
                         Err("UnlockAmountExceedsLocked", Some(borrowed_amt)), <<>>)
             ELSE Return(store_borrower_info(storage, borrower,
                             BorrowerInfo(info.balance, info.spendable + amount)),
                         Ok, <<>>)

unlock_collateral(storage, cfg, sender, borrower, amount) ==
    IF sender # cfg.overseer_contract
    THEN Return(storage, Err("Unauthorized", None), <<>>)
    ELSE LET info == read_borrower_info(storage, borrower)
             borrowed_amt == info.balance - info.spendable
         IN  IF info.balance < info.spendable
             THEN Return(storage, Panic, <<>>)
             ELSE IF amount > borrowed_amt
             THEN Return(storage,
                         Err("UnlockAmountExceedsLocked", Some(borrowed_amt)), <<>>)
             ELSE Return(store_borrower_info(storage, borrower,
                             BorrowerInfo(info.balance, info.spendable + amount)),
                         Ok, <<>>)

\* Mutant of liquidate_collateral: the amount is checked against the balance,
\* not against the locked part of it.
liquidate_collateral_balance_check(storage, cfg, sender, liquidator, borrower, amount) ==
    IF sender # cfg.overseer_contract
    THEN Return(storage, Err("Unauthorized", None), <<>>)
    ELSE LET info == read_borrower_info(storage, borrower)
         IN  IF amount > info.balance
             THEN Return(storage,
                         Err("LiquidationAmountExceedsLocked", Some(info.balance)), <<>>)
             ELSE Return(store_borrower_info(storage, borrower,
                             BorrowerInfo(info.balance - amount, info.spendable)),
                         Ok,
                         <<SendExecuteBidMsg(cfg.collateral_token,
                                             cfg.liquidation_contract, amount, liquidator,
                                             Some(cfg.overseer_contract),
                                             Some(cfg.market_contract))>>)

\* Mutant of liquidate_collateral: the fee and repay recipients are swapped.
liquidate_collateral_swapped_recipients(storage, cfg, sender, liquidator, borrower, amount) ==
    IF sender # cfg.overseer_contract
    THEN Return(storage, Err("Unauthorized", None), <<>>)
    ELSE LET info == read_borrower_info(storage, borrower)
             borrowed_amt == info.balance - info.spendable
         IN  IF amount > borrowed_amt
             THEN Return(storage,
                         Err("LiquidationAmountExceedsLocked", Some(borrowed_amt)), <<>>)
             ELSE Return(store_borrower_info(storage, borrower,
                             BorrowerInfo(info.balance - amount, info.spendable)),
                         Ok,
                         <<SendExecuteBidMsg(cfg.collateral_token,
                                             cfg.liquidation_contract, amount, liquidator,
                                             Some(cfg.market_contract),
                                             Some(cfg.overseer_contract))>>)

liquidate_collateral(storage, cfg, sender, liquidator, borrower, amount) ==
    IF sender # cfg.overseer_contract
    THEN Return(storage, Err("Unauthorized", None), <<>>)
    ELSE LET info == read_borrower_info(storage, borrower)
             borrowed_amt == info.balance - info.spendable
         IN  IF info.balance < info.spendable
             THEN Return(storage, Panic, <<>>)
             ELSE IF amount > borrowed_amt
             THEN Return(storage,
                         Err("LiquidationAmountExceedsLocked", Some(borrowed_amt)), <<>>)
             ELSE Return(store_borrower_info(storage, borrower,
                             BorrowerInfo(info.balance - amount, info.spendable)),
                         Ok,
                         <<SendExecuteBidMsg(cfg.collateral_token,
                                             cfg.liquidation_contract, amount, liquidator,
                                             Some(cfg.overseer_contract),
                                             Some(cfg.market_contract))>>)


\* StdResult<BorrowerResponse>: [res, data], data the response of an Ok.
query_borrower(storage, borrower) ==
    LET info == read_borrower_info(storage, borrower)
    IN  [res |-> Ok,
         data |-> Some(BorrowerResponse(borrower, info.balance, info.spendable))]

\* StdResult<BorrowersResponse>: the page of read_borrowers.
query_borrowers(storage, start_after, limit) ==
    LET r == read_borrowers(storage, start_after, limit)
    IN  [res |-> IF r.kind = "Ok" THEN Ok ELSE Err(r.kind, None),
         data |-> IF r.kind = "Ok" THEN Some(r.list) ELSE None]

(***************************************************************************)
(* The ledger as a state machine: one action per handler.                  *)
(***************************************************************************)
Call(op, sender, borrower, amount, liquidator, r) ==
    [op |-> op, sender |-> sender, borrower |-> borrower, amount |-> amount,
     liquidator |-> liquidator, res |-> r.res, msgs |-> r.msgs, data |-> None]

InitLedger ==
    /\ config = [collateral_token |-> CollateralToken,
                 overseer_contract |-> Overseer,
                 market_contract |-> MarketContract,
                 liquidation_contract |-> LiquidationContract]
    /\ borrowers = <<>>
    /\ call = Call("instantiate", Overseer, None, None, None, Return(<<>>, Ok, <<>>))

\* The collateral token reports a completed transfer of amount > 0.  The cap
\* keeps the balances in a finite range; it stands for the token's supply,
\* which a Uint256 balance never exceeds.
Deposit(Bs, As, cap) ==
    \E borrower \in Bs, amount \in As \ {0} :
        /\ read_borrower_info(borrowers, borrower).balance + amount <= cap
        /\ LET r == deposit_collateral(borrowers, borrower, amount)
           IN  /\ borrowers' = r.storage
               /\ call' = Call("deposit", CollateralToken, Some(borrower),
                               Some(amount), None, r)
        /\ UNCHANGED <<config, bid_vars, rate_vars>>

Withdraw(Ss, As) ==
    \E sender \in Ss, amount \in {None} \cup {Some(a) : a \in As} :
        /\ LET r == withdraw_collateral(borrowers, config, sender, amount)
           IN  /\ borrowers' = r.storage
               /\ call' = Call("withdraw", sender, Some(sender), amount, None, r)
        /\ UNCHANGED <<config, bid_vars, rate_vars>>

Lock(Ss, Bs, As) ==
    \E sender \in Ss, borrower \in Bs, amount \in As :
        /\ LET r == lock_collateral(borrowers, config, sender, borrower, amount)
           IN  /\ borrowers' = r.storage
               /\ call' = Call("lock", sender, Some(borrower), Some(amount), None, r)
        /\ UNCHANGED <<config, bid_vars, rate_vars>>

Unlock(Ss, Bs, As) ==
    \E sender \in Ss, borrower \in Bs, amount \in As :
        /\ LET r == unlock_collateral(borrowers, config, sender, borrower, amount)
           IN  /\ borrowers' = r.storage
               /\ call' = Call("unlock", sender, Some(borrower), Some(amount), None, r)
        /\ UNCHANGED <<config, bid_vars, rate_vars>>

Liquidate(Ss, Bs, As) ==
    \E sender \in Ss, borrower \in Bs, amount \in As :
        /\ LET r == liquidate_collateral(borrowers, config, sender, Liquidator,
                                         borrower, amount)
           IN  /\ borrowers' = r.storage
               /\ call' = Call("liquidate", sender, Some(borrower), Some(amount),
                               Some(Liquidator), r)
        /\ UNCHANGED <<config, bid_vars, rate_vars>>

\* A query reads the storage and writes nothing.
Query(Bs) ==
    \E borrower \in Bs :
        /\ LET q == query_borrower(borrowers, borrower)
           IN  call' = [Call("query", borrower, Some(borrower), None, None,
                             Return(borrowers, q.res, <<>>))
                        EXCEPT !.data = q.data]
        /\ UNCHANGED <<config, borrowers, bid_vars, rate_vars>>

\* The call record of a page query also holds the start_after and the limit
\* it was given.
QueryBorrowers(Starts, Limits) ==
    \E start_after \in Starts, limit \in Limits :
        /\ LET q == query_borrowers(borrowers, start_after, limit)
           IN  call' = [Call("borrowers", None, None, None, None,
                             Return(borrowers, q.res, <<>>)) EXCEPT !.data = q.data]
                       @@ [start_after |-> start_after, limit |-> limit]
        /\ UNCHANGED <<config, borrowers, bid_vars, rate_vars>>

NextLedger ==
    \/ Deposit(Borrowers, Amounts, MaxBalance)
    \/ Withdraw(Senders, Amounts)
    \/ Lock(Senders, Borrowers, Amounts)
    \/ Unlock(Senders, Borrowers, Amounts)
    \/ Liquidate(Senders, Borrowers, Amounts)
    \/ Query(Borrowers)

\* The worked scenario's inputs: one borrower, the overseer and a stranger,
\* and the scenario's amounts.
NextScenario ==
    \/ Deposit({BorrowerA}, ScenarioAmounts, ScenarioMaxBalance)
    \/ Withdraw({BorrowerA, Overseer}, ScenarioAmounts)
    \/ Lock({BorrowerA, Overseer}, {BorrowerA}, ScenarioAmounts)
    \/ Unlock({BorrowerA, Overseer}, {BorrowerA}, ScenarioAmounts)
    \/ Liquidate({BorrowerA, Overseer}, {BorrowerA}, ScenarioAmounts)
    \/ Query({BorrowerA})

(***************************************************************************)
(* liquidation/src/state.rs                                                *)
(*                                                                         *)
(* PREFIX_BID is one bucket whose key is the bidder's bytes followed by    *)
(* the collateral token's bytes, with nothing between them.  The two index *)
(* buckets are multilevel: the first identity is a length-prefixed         *)
(* namespace and the second the key, so an index entry is a pair.          *)
(***************************************************************************)
BidderA == <<1>>
BidderAB == <<1, 2>>
CollateralA == <<1>>
CollateralBA == <<2, 1>>

Bidders == {BidderA, BidderAB}
Collaterals == {CollateralA, CollateralBA}
PremiumRates == {0, 1}
Bids == [amount : 1..MaxBidAmount, premium_rate : PremiumRates]

BidStorage(b, u, c) == [bid |-> b, bid_by_user |-> u, bid_by_collateral |-> c]

\* [bidder.as_bytes(), collateral_token.as_bytes()].concat()
bid_key(bidder, collateral_token) == bidder \o collateral_token

store_bid(storage, bidder, collateral_token, new_bid) ==
    LET key == bid_key(bidder, collateral_token)
    IN  BidStorage([k \in DOMAIN storage.bid \cup {key} |->
                        IF k = key THEN new_bid ELSE storage.bid[k]],
                   storage.bid_by_user \cup {<<bidder, collateral_token>>},
                   storage.bid_by_collateral \cup {<<collateral_token, bidder>>})

remove_bid(storage, bidder, collateral_token) ==
    LET key == bid_key(bidder, collateral_token)
    IN  BidStorage([k \in DOMAIN storage.bid \ {key} |-> storage.bid[k]],
                   storage.bid_by_user \ {<<bidder, collateral_token>>},
                   storage.bid_by_collateral \ {<<collateral_token, bidder>>})

NoBidsMsg == "No bids with the specified information exist"

read_bid(storage, bidder, collateral_token) ==
    LET key == bid_key(bidder, collateral_token)
    IN  IF key \in DOMAIN storage.bid
        THEN [kind |-> "Ok", bid |-> Some(storage.bid[key]), msg |-> ""]
        ELSE [kind |-> "GenericErr", bid |-> None, msg |-> NoBidsMsg]

\* settings for pagination (liquidation/src/state.rs)
BID_MAX_LIMIT == 30
BID_DEFAULT_LIMIT == 10

\* liquidation's own calc_range_start
bid_calc_range_start(start_after) ==
    IF start_after = None THEN None ELSE Some(Append(start_after[1], 1))

\* moneymarket::liquidation::BidResponse
BidResponse(collateral_token, bidder, amount, premium_rate) ==
    [collateral_token |-> collateral_token, bidder |-> bidder,
     amount |-> amount, premium_rate |-> premium_rate]

read_bids_by_collateral(storage, collateral_token, start_after, limit) ==
    LET keys == {p[2] : p \in {q \in storage.bid_by_collateral : q[1] = collateral_token}}
        n == Min(IF limit = None THEN BID_DEFAULT_LIMIT ELSE limit[1], BID_MAX_LIMIT)
        start == bid_calc_range_start(start_after)
        page == Take(RangeFrom(keys, start), n)
        item(k) ==
            LET bidder == addr_validate(from_utf8_lossy(k))
                found == read_bid(storage, bidder.addr, collateral_token)
            IN  IF bidder.kind # "Ok"
                THEN [kind |-> bidder.kind, msg |-> "", item |-> None]
                ELSE IF found.kind # "Ok"
                THEN [kind |-> found.kind, msg |-> found.msg, item |-> None]
                ELSE [kind |-> "Ok", msg |-> "",
                      item |-> BidResponse(collateral_token, bidder.addr,
                                           found.bid[1].amount,
                                           found.bid[1].premium_rate)]
    IN  Collect([i \in 1..Len(page) |-> item(page[i])])

read_bids_by_user(storage, bidder, start_after, limit) ==
    LET keys == {p[2] : p \in {q \in storage.bid_by_user : q[1] = bidder}}
        n == Min(IF limit = None THEN BID_DEFAULT_LIMIT ELSE limit[1], BID_MAX_LIMIT)
        start == bid_calc_range_start(start_after)
        page == Take(RangeFrom(keys, start), n)
        item(k) ==
            LET collateral_token == addr_validate(from_utf8_lossy(k))
                found == read_bid(storage, bidder, collateral_token.addr)
            IN  IF collateral_token.kind # "Ok"
                THEN [kind |-> collateral_token.kind, msg |-> "", item |-> None]
                ELSE IF found.kind # "Ok"
                THEN [kind |-> found.kind, msg |-> found.msg, item |-> None]
                ELSE [kind |-> "Ok", msg |-> "",
                      item |-> BidResponse(collateral_token.addr, bidder,
                                           found.bid[1].amount,
                                           found.bid[1].premium_rate)]
    IN  Collect([i \in 1..Len(page) |-> item(page[i])])

(***************************************************************************)
(* The bid book as a state machine.                                        *)
(***************************************************************************)
bid_storage == BidStorage(bid, bid_by_user, bid_by_collateral)

BidCall(op, bidder, collateral_token, arg, res) ==
    [op |-> op, bidder |-> bidder, collateral_token |-> collateral_token,
     arg |-> arg, res |-> res]

InitBids ==
    /\ bid = <<>>
    /\ bid_by_user = {}
    /\ bid_by_collateral = {}
    /\ bid_call = BidCall("instantiate", None, None, None, None)

PlaceBid ==
    \E bidder \in Bidders, collateral_token \in Collaterals, new_bid \in Bids :
        /\ LET s == store_bid(bid_storage, bidder, collateral_token, new_bid)
           IN  /\ bid' = s.bid
               /\ bid_by_user' = s.bid_by_user
               /\ bid_by_collateral' = s.bid_by_collateral
        /\ bid_call' = BidCall("store_bid", bidder, collateral_token,
                               Some(new_bid), None)
        /\ UNCHANGED <<ledger_vars, rate_vars>>

RemoveBid ==
    \E bidder \in Bidders, collateral_token \in Collaterals :
        /\ LET s == remove_bid(bid_storage, bidder, collateral_token)
           IN  /\ bid' = s.bid
               /\ bid_by_user' = s.bid_by_user
               /\ bid_by_collateral' = s.bid_by_collateral
        /\ bid_call' = BidCall("remove_bid", bidder, collateral_token, None, None)
        /\ UNCHANGED <<ledger_vars, rate_vars>>

ReadBid ==
    \E bidder \in Bidders, collateral_token \in Collaterals :
        /\ bid_call' = BidCall("read_bid", bidder, collateral_token, None,
                               Some(read_bid(bid_storage, bidder, collateral_token)))
        /\ UNCHANGED <<bid, bid_by_user, bid_by_collateral, ledger_vars, rate_vars>>

\* arg of a list call: the start_after and the limit it was given.
ListArg(start_after, limit) == [start_after |-> start_after, limit |-> limit]

ListByCollateral(Cs, Starts, Limits) ==
    \E collateral_token \in Cs, start_after \in Starts, limit \in Limits :
        /\ bid_call' = BidCall("read_bids_by_collateral", None, collateral_token,
                               ListArg(start_after, limit),
                               Some(read_bids_by_collateral(bid_storage, collateral_token,
                                                            start_after, limit)))
        /\ UNCHANGED <<bid, bid_by_user, bid_by_collateral, ledger_vars, rate_vars>>

ListByUser(Bs, Starts, Limits) ==
    \E bidder \in Bs, start_after \in Starts, limit \in Limits :
        /\ bid_call' = BidCall("read_bids_by_user", bidder, None,
                               ListArg(start_after, limit),
                               Some(read_bids_by_user(bid_storage, bidder,
                                                      start_after, limit)))
        /\ UNCHANGED <<bid, bid_by_user, bid_by_collateral, ledger_vars, rate_vars>>

NextBids ==
    \/ PlaceBid
    \/ RemoveBid
    \/ ReadBid
    \/ ListByCollateral(Collaterals, {None, Some(BidderA)}, {None, Some(1)})
    \/ ListByUser(Bidders, {None, Some(CollateralA)}, {None, Some(1)})

(***************************************************************************)
(* distribution_model/src/contract.rs                                      *)
(*                                                                         *)
(* A Decimal256 d is held as the natural d * DecimalFractional, and the    *)
(* arithmetic is the one of the fixed-point type: a product and a quotient *)
(* are rounded down to a whole number of units.                            *)
(***************************************************************************)
OwnerA == <<8>>
OwnerB == <<9>>
Owners == {OwnerA, OwnerB}

dec_one == DecimalFractional
dec_add(a, b) == a + b
dec_mul(a, b) == (a * b) \div DecimalFractional
dec_div(a, b) == (a * DecimalFractional) \div b

\* emission_cap and emission_floor of the model's messages (units), the
\* multipliers, the deposit-side rates and the current emission rates.
EmissionRates == {1, 2, 4}
Multipliers == {1, 3}
DepositRates == {0, 2, 4}
CurrentRates == {0, 2, 3}

RateConfig(owner, emission_cap, emission_floor, increment_multiplier, decrement_multiplier) ==
    [owner |-> owner, emission_cap |-> emission_cap, emission_floor |-> emission_floor,
     increment_multiplier |-> increment_multiplier,
     decrement_multiplier |-> decrement_multiplier]

instantiate(msg) ==
    RateConfig(addr_validate(msg.owner).addr, msg.emission_cap, msg.emission_floor,
               msg.increment_multiplier, msg.decrement_multiplier)

update_config_floor_from_cap(cfg, sender, owner, emission_cap, emission_floor, increment_multiplier, decrement_multiplier) ==
    IF sender # cfg.owner
    THEN [config |-> cfg, res |-> "Unauthorized"]
    ELSE [config |->
            RateConfig(IF owner = None THEN cfg.owner ELSE owner[1],
                       IF emission_cap = None THEN cfg.emission_cap ELSE emission_cap[1],
                       IF emission_cap = None THEN cfg.emission_floor ELSE emission_cap[1],
                       IF increment_multiplier = None THEN cfg.increment_multiplier
                                                      ELSE increment_multiplier[1],
                       IF decrement_multiplier = None THEN cfg.decrement_multiplier
                                                      ELSE decrement_multiplier[1]),
          res |-> "Ok"]

update_config(cfg, sender, owner, emission_cap, emission_floor, increment_multiplier, decrement_multiplier) ==
    IF sender # cfg.owner
    THEN [config |-> cfg, res |-> "Unauthorized"]
    ELSE [config |->
            RateConfig(IF owner = None THEN cfg.owner ELSE owner[1],
                       IF emission_cap = None THEN cfg.emission_cap ELSE emission_cap[1],
                       IF emission_floor = None THEN cfg.emission_floor ELSE emission_floor[1],
                       IF increment_multiplier = None THEN cfg.increment_multiplier
                                                      ELSE increment_multiplier[1],
                       IF decrement_multiplier = None THEN cfg.decrement_multiplier
                                                      ELSE decrement_multiplier[1]),
          res |-> "Ok"]

query_ap_emission_rate(cfg, deposit_rate, target_deposit_rate, threshold_deposit_rate, current_emission_rate) ==
    LET half_dec == dec_add(dec_one, dec_one)
        mid_rate == dec_div(dec_add(threshold_deposit_rate, target_deposit_rate), half_dec)
        high_trigger == dec_div(dec_add(mid_rate, target_deposit_rate), half_dec)
        low_trigger == dec_div(dec_add(mid_rate, threshold_deposit_rate), half_dec)
        emission_rate ==
            IF deposit_rate < low_trigger
            THEN dec_mul(current_emission_rate, cfg.increment_multiplier)
            ELSE IF deposit_rate > high_trigger
            THEN dec_mul(current_emission_rate, cfg.decrement_multiplier)
            ELSE current_emission_rate
    IN  IF emission_rate > cfg.emission_cap THEN cfg.emission_cap
        ELSE IF emission_rate < cfg.emission_floor THEN cfg.emission_floor
        ELSE emission_rate

(***************************************************************************)
(* The rate calculator as a state machine.                                 *)
(***************************************************************************)
InstantiateMsgs ==
    [owner : {OwnerA}, emission_cap : EmissionRates, emission_floor : EmissionRates,
     increment_multiplier : Multipliers, decrement_multiplier : Multipliers]

UpdateMsgs ==
    [owner : {None} \cup {Some(o) : o \in Owners},
     emission_cap : {None, Some(2)},
     emission_floor : {None, Some(1)},
     increment_multiplier : {None, Some(3)},
     decrement_multiplier : {None, Some(1)}]

RateCall(op, sender, msg, res, emission_rate) ==
    [op |-> op, sender |-> sender, msg |-> msg, res |-> res,
     emission_rate |-> emission_rate]

InitRate(Msgs) ==
    \E msg \in Msgs :
        /\ rate_config = instantiate(msg)
        /\ rate_call = RateCall("instantiate", None, None, "Ok", None)

UpdateConfig ==
    \E sender \in Owners, msg \in UpdateMsgs :
        LET r == update_config(rate_config, sender, msg.owner, msg.emission_cap,
                               msg.emission_floor, msg.increment_multiplier,
                               msg.decrement_multiplier)
        IN  /\ rate_config' = r.config
            /\ rate_call' = RateCall("update_config", Some(sender), Some(msg), r.res, None)
            /\ UNCHANGED <<ledger_vars, bid_vars>>

QueryApEmissionRate ==
    \E deposit_rate \in DepositRates, target_deposit_rate \in DepositRates,
       threshold_deposit_rate \in DepositRates, current_emission_rate \in CurrentRates :
        /\ rate_call' =
              RateCall("ap_emission_rate", None,
                       Some([deposit_rate |-> deposit_rate,
                             target_deposit_rate |-> target_deposit_rate,
                             threshold_deposit_rate |-> threshold_deposit_rate,
                             current_emission_rate |-> current_emission_rate]),
                       "Ok",
                       Some(query_ap_emission_rate(rate_config, deposit_rate,
                                                   target_deposit_rate,
                                                   threshold_deposit_rate,
                                                   current_emission_rate)))
        /\ UNCHANGED <<rate_config, ledger_vars, bid_vars>>

NextRate == UpdateConfig \/ QueryApEmissionRate

\* The calculator's setup while the ledger or the bid book is explored.
DefaultInstantiateMsg ==
    [owner |-> OwnerA, emission_cap |-> 4, emission_floor |-> 1,
     increment_multiplier |-> 3, decrement_multiplier |-> 1]

(***************************************************************************)
(* Pagination: the page queries applied to storages of up to MaxEntries    *)
(* records.  A storage holds the first n of the keys PageKey(1..MaxEntries)*)
(* and one of the EdgeSets, keys that are prefixes of one another; the bid *)
(* book holds a bid of every such key on PageCollateral and a bid of       *)
(* PageBidder on every such key.                                           *)
(***************************************************************************)
PageKey(i) == <<9, i>>
PageSizes == {0, 10, 11, MaxEntries}
EdgeSets == {{}, {<<1>>, <<1, 0>>}, {<<1>>, <<1, 1>>, <<2>>}}
PageKeys(n, E) == {PageKey(i) : i \in 1..n} \cup E
PageCollateral == <<4>>
PageBidder == <<7>>
PageLimits == {None, Some(0), Some(1), Some(30), Some(31), Some(100)}
PageStarts == {None, Some(<<1>>), Some(PageKey(10))}
ListLimits == {None, Some(100)}
ListStarts == {None, Some(PageKey(10))}

\* The bucket after store_borrower_info of every key.
StoreBorrowers(keys) ==
    [k \in keys |-> BorrowerInfo(1 + Len(k), k[Len(k)] % 2)]

\* The three tables after store_bid of every pair.
StoreBids(pairs) ==
    BidStorage([key \in {bid_key(p[1], p[2]) : p \in pairs} |->
                    [amount |-> 1 + (Len(key) % MaxBidAmount), premium_rate |-> 0]],
               pairs,
               {<<p[2], p[1]>> : p \in pairs})

InitPage ==
    \E n \in PageSizes, E \in EdgeSets :
        LET keys == PageKeys(n, E)
            book == StoreBids({<<k, PageCollateral>> : k \in keys}
                                  \cup {<<PageBidder, k>> : k \in keys})
        IN  /\ config = [collateral_token |-> CollateralToken,
                         overseer_contract |-> Overseer,
                         market_contract |-> MarketContract,
                         liquidation_contract |-> LiquidationContract]
            /\ borrowers = StoreBorrowers(keys)
            /\ call = Call("instantiate", Overseer, None, None, None,
                           Return(<<>>, Ok, <<>>))
            /\ bid = book.bid
            /\ bid_by_user = book.bid_by_user
            /\ bid_by_collateral = book.bid_by_collateral
            /\ bid_call = BidCall("instantiate", None, None, None, None)
            /\ InitRate({DefaultInstantiateMsg})

NextPage ==
    \/ QueryBorrowers(PageStarts, PageLimits)
    \/ ListByCollateral({PageCollateral}, ListStarts, ListLimits)
    \/ ListByUser({PageBidder}, ListStarts, ListLimits)

Init == InitLedger /\ InitBids /\ InitRate({DefaultInstantiateMsg})
InitRates == InitLedger /\ InitBids /\ InitRate(InstantiateMsgs)

SpecLedger == Init /\ [][NextLedger]_vars
SpecScenario == Init /\ [][NextScenario]_vars
SpecBids == Init /\ [][NextBids]_vars
SpecRate == InitRates /\ [][NextRate]_vars
SpecPage == InitPage /\ [][NextPage]_vars

(***************************************************************************)
(* The collateral ledger's properties.  In an action formula the unprimed  *)
(* ledger is the one before the call and call' describes the call.         *)
(***************************************************************************)
LedgerOps == {"withdraw", "lock", "unlock", "liquidate"}
OverseerOps == {"lock", "unlock", "liquidate"}
Pre(b) == read_borrower_info(borrowers, b)
Post(b) == read_borrower_info(borrowers', b)
Locked(info) == info.balance - info.spendable

\* C1: in every reachable state every borrower's record (and the read-time
\* default of a borrower without one) has 0 <= spendable <= balance.
C1_SpendableWithinBalance ==
    \A b \in DOMAIN borrowers \cup Borrowers :
        LET info == read_borrower_info(borrowers, b)
        IN  0 <= info.spendable /\ info.spendable <= info.balance

\* A successful liquidation that took the whole locked part of a record whose
\* spendable part is not empty: spendable is now the whole of the lower balance.
C1_Witness ==
    /\ call.op = "liquidate" /\ call.res = Ok /\ call.amount[1] > 0
    /\ call.borrower[1] \in DOMAIN borrowers
    /\ borrowers[call.borrower[1]].spendable > 0
    /\ borrowers[call.borrower[1]].spendable = borrowers[call.borrower[1]].balance

\* C3: a withdraw, lock, unlock or liquidate that returns an error leaves the
\* stored ledger as it was and emits no outbound message.
C3_ErrorLeavesLedger ==
    [][(call'.op \in LedgerOps /\ call'.res.kind # "Ok")
          => (borrowers' = borrowers /\ call'.msgs = <<>>)]_vars

\* An overseer's unlock rejected on a ledger that holds a record.
C3_Witness ==
    /\ call.op = "unlock" /\ call.res.kind = "UnlockAmountExceedsLocked"
    /\ call.borrower[1] \in DOMAIN borrowers
    /\ borrowers[call.borrower[1]].spendable > 0

\* C4: lock, unlock and liquidate by a caller other than Config's overseer
\* fail with Unauthorized whatever the amount and the borrower's state, and a
\* call other than a withdraw that lowers some borrower's spendable or balance
\* was made by the overseer.
C4_OnlyOverseer ==
    [][/\ (call'.op \in OverseerOps /\ call'.sender # config.overseer_contract)
            => /\ call'.res = Err("Unauthorized", None)
               /\ borrowers' = borrowers
               /\ call'.msgs = <<>>
       /\ \A b \in Borrowers :
            ((Post(b).spendable < Pre(b).spendable \/ Post(b).balance < Pre(b).balance)
                /\ call'.op # "withdraw")
            => call'.sender = config.overseer_contract]_vars

\* A liquidation by a borrower, for more than the locked amount: Unauthorized.
C4_Witness ==
    /\ call.op = "liquidate" /\ call.sender # config.overseer_contract
    /\ call.res.kind = "Unauthorized"
    /\ call.borrower[1] \in DOMAIN borrowers
    /\ call.amount[1] > Locked(borrowers[call.borrower[1]])
    /\ Locked(borrowers[call.borrower[1]]) > 0

\* C5 (as claimed): a stored BorrowerInfo record has balance > 0.
C5_StoredRecordHasBalance ==
    \A b \in DOMAIN borrowers : borrowers[b].balance > 0

\* C6: withdraw with the amount omitted takes the caller's spendable and
\* succeeds; with an amount above spendable it fails with
\* WithdrawAmountExceedsSpendable; otherwise balance and spendable both drop
\* by the amount and the one message transfers it to the caller.
C6_Withdraw ==
    [][call'.op = "withdraw" =>
        LET who == call'.sender
            a == IF call'.amount = None THEN Pre(who).spendable ELSE call'.amount[1]
        IN  /\ call'.amount = None => call'.res = Ok
            /\ a > Pre(who).spendable
                 => /\ call'.res.kind = "WithdrawAmountExceedsSpendable"
                    /\ borrowers' = borrowers
                    /\ call'.msgs = <<>>
            /\ a <= Pre(who).spendable
                 => /\ call'.res = Ok
                    /\ Post(who).balance = Pre(who).balance - a
                    /\ Post(who).spendable = Pre(who).spendable - a
                    /\ call'.msgs = <<[contract_addr |-> config.collateral_token,
                                       kind |-> "Transfer",
                                       recipient |-> who,
                                       amount |-> a]>>]_vars

\* A withdraw without an amount that paid out while collateral stays locked.
C6_Witness ==
    /\ call.op = "withdraw" /\ call.amount = None /\ call.res = Ok
    /\ Len(call.msgs) = 1 /\ call.msgs[1].amount > 0
    /\ call.sender \in DOMAIN borrowers
    /\ borrowers[call.sender].spendable = 0

\* C7: the overseer's liquidate of a <= balance - spendable lowers balance by
\* a, leaves spendable, and emits one message sending a of the collateral to
\* the liquidation engine with the liquidator, fee recipient = overseer and
\* repay recipient = market; with a > balance - spendable it fails with
\* LiquidationAmountExceedsLocked.
C7_Liquidate ==
    [][(call'.op = "liquidate" /\ call'.sender = config.overseer_contract) =>
        LET b == call'.borrower[1]
            a == call'.amount[1]
        IN  /\ a <= Locked(Pre(b))
                 => /\ call'.res = Ok
                    /\ Post(b).balance = Pre(b).balance - a
                    /\ Post(b).spendable = Pre(b).spendable
                    /\ call'.msgs = <<[contract_addr |-> config.collateral_token,
                                       kind |-> "Send",
                                       contract |-> config.liquidation_contract,
                                       amount |-> a,
                                       liquidator |-> call'.liquidator[1],
                                       fee_address |-> Some(config.overseer_contract),
                                       repay_address |-> Some(config.market_contract)]>>
            /\ a > Locked(Pre(b))
                 => /\ call'.res.kind = "LiquidationAmountExceedsLocked"
                    /\ borrowers' = borrowers
                    /\ call'.msgs = <<>>]_vars

\* A liquidation of part of the locked amount.
C7_Witness ==
    /\ call.op = "liquidate" /\ call.res = Ok /\ call.amount[1] > 0
    /\ Len(call.msgs) = 1 /\ call.msgs[1].liquidator = Liquidator
    /\ call.borrower[1] \in DOMAIN borrowers
    /\ Locked(borrowers[call.borrower[1]]) > 0

\* C8: the overseer's lock succeeds exactly when a <= spendable and then
\* lowers spendable by a, balance unchanged, no message; the overseer's unlock
\* succeeds exactly when a <= balance - spendable and then raises spendable by
\* a, balance unchanged.  Scenario: deposit(A,100) gives (100,100), lock(A,40)
\* gives (100,60), liquidate(L,A,30) gives (70,60), and unlock(A,10), of
\* exactly the locked 10, succeeds and gives (70,70).
C8_LockUnlock ==
    [][LET b == call'.borrower[1]
           a == call'.amount[1]
           byOverseer == call'.sender = config.overseer_contract
       IN  /\ (call'.op = "lock" /\ byOverseer)
                => /\ call'.res = Ok <=> a <= Pre(b).spendable
                   /\ call'.res = Ok
                        => /\ Post(b) = BorrowerInfo(Pre(b).balance, Pre(b).spendable - a)
                           /\ call'.msgs = <<>>
           /\ (call'.op = "unlock" /\ byOverseer)
                => /\ call'.res = Ok <=> a <= Locked(Pre(b))
                   /\ call'.res = Ok
                        => Post(b) = BorrowerInfo(Pre(b).balance, Pre(b).spendable + a)
           /\ (call'.op = "deposit" /\ borrowers = <<>> /\ b = BorrowerA /\ a = 100)
                => Post(b) = BorrowerInfo(100, 100)
           /\ (call'.op = "lock" /\ byOverseer /\ b = BorrowerA /\ a = 40
                    /\ Pre(b) = BorrowerInfo(100, 100))
                => Post(b) = BorrowerInfo(100, 60)
           /\ (call'.op = "liquidate" /\ byOverseer /\ b = BorrowerA /\ a = 30
                    /\ Pre(b) = BorrowerInfo(100, 60))
                => Post(b) = BorrowerInfo(70, 60)
           /\ (call'.op = "unlock" /\ byOverseer /\ b = BorrowerA /\ a = 10
                    /\ Pre(b) = BorrowerInfo(70, 60))
                => (call'.res = Ok /\ Post(b) = BorrowerInfo(70, 70))]_vars

\* The end of the scenario: the unlock of 10 returned Ok and left (70, 70).
C8_Witness ==
    /\ call.op = "unlock" /\ call.res = Ok /\ call.amount = Some(10)
    /\ call.borrower = Some(BorrowerA)
    /\ BorrowerA \in DOMAIN borrowers
    /\ borrowers[BorrowerA] = BorrowerInfo(70, 70)

\* C14: query(borrower) never fails and returns the stored (balance,
\* spendable), or (0, 0) for a borrower without a record.  A withdraw of the
\* whole spendable while collateral is locked keeps the record, with
\* spendable 0 and balance = the locked amount; a withdraw that brings balance
\* to zero deletes the record (so that a query then returns (0, 0)).
C14_QueryTotal ==
    [][LET b == call'.borrower[1]
           a == IF call'.amount = None THEN Pre(b).spendable ELSE call'.amount[1]
       IN  /\ call'.op = "query"
                => /\ call'.res = Ok
                   /\ call'.data =
                        Some([borrower |-> b,
                              balance |-> IF b \in DOMAIN borrowers
                                          THEN borrowers[b].balance ELSE 0,
                              spendable |-> IF b \in DOMAIN borrowers
                                            THEN borrowers[b].spendable ELSE 0])
           /\ (call'.op = "withdraw" /\ call'.res = Ok /\ a = Pre(b).spendable
                    /\ Locked(Pre(b)) > 0)
                => /\ b \in DOMAIN borrowers'
                   /\ borrowers'[b] = BorrowerInfo(Locked(Pre(b)), 0)
           /\ (call'.op = "withdraw" /\ call'.res = Ok /\ a = Pre(b).balance)
                => /\ b \notin DOMAIN borrowers'
                   /\ query_borrower(borrowers', b).data
                        = Some([borrower |-> b, balance |-> 0, spendable |-> 0])]_vars

\* A query of a borrower without a record, beside a borrower that has one.
C14_Witness ==
    /\ call.op = "query" /\ call.res = Ok
    /\ call.borrower[1] \notin DOMAIN borrowers
    /\ call.data = Some([borrower |-> call.borrower[1], balance |-> 0, spendable |-> 0])
    /\ DOMAIN borrowers # {}

\* C17: deposit never fails, creates the record if absent and raises balance
\* and spendable by the amount; deposit and withdraw leave the locked amount
\* balance - spendable, and a successful withdraw leaves balance at or above
\* the amount that was locked before the call.
C17_DepositWithdrawKeepLocked ==
    [][LET b == call'.borrower[1]
       IN  /\ call'.op = "deposit"
                => /\ call'.res = Ok
                   /\ b \in DOMAIN borrowers'
                   /\ Post(b) = BorrowerInfo(Pre(b).balance + call'.amount[1],
                                             Pre(b).spendable + call'.amount[1])
           /\ call'.op \in {"deposit", "withdraw"}
                => Locked(Post(b)) = Locked(Pre(b))
           /\ (call'.op = "withdraw" /\ call'.res = Ok)
                => Post(b).balance >= Locked(Pre(b))]_vars

\* A deposit onto a record part of which is locked.
C17_Witness ==
    /\ call.op = "deposit" /\ call.res = Ok
    /\ call.borrower[1] \in DOMAIN borrowers
    /\ Locked(borrowers[call.borrower[1]]) > 0
    /\ borrowers[call.borrower[1]].spendable > call.amount[1]

\* C19: a rejected withdraw or lock carries the borrower's current spendable,
\* a rejected unlock or liquidate the current locked amount balance - spendable.
C19_ErrorCarriesAvailable ==
    [][LET b == call'.borrower[1]
       IN  /\ call'.res.kind \in {"WithdrawAmountExceedsSpendable",
                                  "LockAmountExceedsSpendable"}
                => call'.res.avail = Some(Pre(b).spendable)
           /\ call'.res.kind \in {"UnlockAmountExceedsLocked",
                                  "LiquidationAmountExceedsLocked"}
                => call'.res.avail = Some(Locked(Pre(b)))
           /\ (call'.op \in LedgerOps /\ call'.res.kind \notin {"Ok", "Unauthorized"})
                => \/ /\ call'.op \in {"withdraw", "lock"}
                      /\ call'.res.kind \in {"WithdrawAmountExceedsSpendable",
                                             "LockAmountExceedsSpendable"}
                   \/ /\ call'.op \in {"unlock", "liquidate"}
                      /\ call'.res.kind \in {"UnlockAmountExceedsLocked",
                                             "LiquidationAmountExceedsLocked"}]_vars

\* A lock rejected on a record whose spendable and balance differ.
C19_Witness ==
    /\ call.op = "lock" /\ call.res.kind = "LockAmountExceedsSpendable"
    /\ call.borrower[1] \in DOMAIN borrowers
    /\ call.res.avail = Some(borrowers[call.borrower[1]].spendable)
    /\ Locked(borrowers[call.borrower[1]]) > 0
    /\ borrowers[call.borrower[1]].spendable > 0

\* The sum of the balances of the stored records.
RECURSIVE TotalBalance(_)
TotalBalance(storage) ==
    IF DOMAIN storage = {} THEN 0
    ELSE LET k == CHOOSE x \in DOMAIN storage : TRUE
         IN  storage[k].balance + TotalBalance(remove_borrower_info(storage, k))

\* The sum of the amounts the outbound messages carry.
RECURSIVE Emitted(_)
Emitted(msgs) ==
    IF msgs = <<>> THEN 0 ELSE Head(msgs).amount + Emitted(Tail(msgs))

\* C21: the ledger starts with no balance, and every call changes the sum of
\* the balances by the amount it deposits less the amounts its outbound
\* messages carry, so the sum is always what was deposited less what was sent
\* out; a successful withdraw or liquidate emits one message, carrying the
\* decrease of the named borrower's balance, and deposit, lock, unlock and
\* every failed call emit none.
C21_Conservation ==
    /\ TotalBalance(borrowers) = 0
    /\ [][call'.op \in LedgerOps \cup {"deposit"} =>
            LET b == call'.borrower[1]
                deposited == IF call'.op = "deposit" THEN call'.amount[1] ELSE 0
            IN  /\ TotalBalance(borrowers')
                      = TotalBalance(borrowers) + deposited - Emitted(call'.msgs)
                /\ (call'.op \in {"withdraw", "liquidate"} /\ call'.res = Ok)
                      => /\ Len(call'.msgs) = 1
                         /\ call'.msgs[1].amount = Pre(b).balance - Post(b).balance
                /\ (call'.op \in {"deposit", "lock", "unlock"} \/ call'.res # Ok)
                      => call'.msgs = <<>>]_vars

\* A withdraw of a part of the spendable amount while the other borrower holds
\* a balance too: the transfer carries the amount asked for.
C21_Witness ==
    /\ call.op = "withdraw" /\ call.res = Ok
    /\ call.amount # None
    /\ call.amount[1] > 0
    /\ call.msgs[1].amount = call.amount[1]
    /\ read_borrower_info(borrowers, call.borrower[1]).spendable > 0
    /\ \E o \in DOMAIN borrowers \ {call.borrower[1]} : borrowers[o].balance > 0

\* The bucket with every record but the borrower's taken out.
OnlyRecordOf(storage, borrower) ==
    [k \in DOMAIN storage \cap {borrower} |-> storage[k]]

\* The handler of the call, applied to the given storage.
Handle(c, storage, cfg) ==
    CASE c.op = "deposit" -> deposit_collateral(storage, c.borrower[1], c.amount[1])
      [] c.op = "withdraw" -> withdraw_collateral(storage, cfg, c.sender, c.amount)
      [] c.op = "lock" ->
            lock_collateral(storage, cfg, c.sender, c.borrower[1], c.amount[1])
      [] c.op = "unlock" ->
            unlock_collateral(storage, cfg, c.sender, c.borrower[1], c.amount[1])
      [] c.op = "liquidate" ->
            liquidate_collateral(storage, cfg, c.sender, c.liquidator[1],
                                 c.borrower[1], c.amount[1])

\* C22: a deposit, withdraw, lock, unlock or liquidate leaves the Config and
\* the existence and content of every record but the named borrower's as they
\* were, and what it returns and does to that record is what it would return
\* and do were the borrower's record the only one stored.
C22_OneRecordFrame ==
    [][call'.op \in LedgerOps \cup {"deposit"} =>
        LET b == call'.borrower[1]
            alone == Handle(call', OnlyRecordOf(borrowers, b), config)
        IN  /\ config' = config
            /\ \A o \in (DOMAIN borrowers \cup DOMAIN borrowers') \ {b} :
                  /\ o \in DOMAIN borrowers
                  /\ o \in DOMAIN borrowers'
                  /\ borrowers'[o] = borrowers[o]
            /\ call'.op = "withdraw" => b = call'.sender
            /\ call'.res = alone.res
            /\ call'.msgs = alone.msgs
            /\ OnlyRecordOf(borrowers', b) = alone.storage]_vars

\* The overseer has just locked a part of one borrower's collateral while the
\* other borrower, whose identity extends the first one's, holds a record with
\* a locked part of its own.
C22_Witness ==
    /\ call.op = "lock" /\ call.res = Ok /\ call.amount[1] > 0
    /\ call.borrower = Some(BorrowerA)
    /\ BorrowerB \in DOMAIN borrowers
    /\ Locked(borrowers[BorrowerB]) > 0
    /\ borrowers[BorrowerB] # read_borrower_info(borrowers, BorrowerA)

(***************************************************************************)
(* Pagination properties.  call and bid_call hold the latest page query,   *)
(* answered from the tables of the same state.                             *)
(***************************************************************************)
\* The page size of the claims: 10 without a limit, else the limit, at most 30.
ClaimedLimit(limit) == IF limit = None THEN 10 ELSE Min(limit[1], 30)

\* The keys a scan that resumes after start_after has ahead of it.
Eligible(keys, start_after) ==
    {k \in keys : start_after = None \/ ~LexLess(k, calc_range_start(start_after)[1])}

\* C11: a page query that returns a list returns min(L, eligible) entries,
\* L being 10 without a limit and min(limit, 30) with one, the eligible
\* entries being those at or after the place where the scan resumes; no list
\* is longer than 30.
C11_PageSize ==
    /\ (call.op = "borrowers" /\ call.res.kind = "Ok")
        => /\ Len(call.data[1])
                = Min(ClaimedLimit(call.limit),
                      Cardinality(Eligible(DOMAIN borrowers, call.start_after)))
           /\ Len(call.data[1]) <= 30
    /\ (bid_call.op = "read_bids_by_collateral" /\ bid_call.res[1].kind = "Ok")
        => /\ Len(bid_call.res[1].list)
                = Min(ClaimedLimit(bid_call.arg.limit),
                      Cardinality(Eligible(
                          {p[2] : p \in {q \in bid_by_collateral :
                                            q[1] = bid_call.collateral_token}},
                          bid_call.arg.start_after)))
           /\ Len(bid_call.res[1].list) <= 30
    /\ (bid_call.op = "read_bids_by_user" /\ bid_call.res[1].kind = "Ok")
        => /\ Len(bid_call.res[1].list)
                = Min(ClaimedLimit(bid_call.arg.limit),
                      Cardinality(Eligible(
                          {p[2] : p \in {q \in bid_by_user : q[1] = bid_call.bidder}},
                          bid_call.arg.start_after)))
           /\ Len(bid_call.res[1].list) <= 30

\* More than 30 borrowers are stored, the borrowers were asked for with limit
\* 100 and 30 came back, and the bids on a collateral with more than 10
\* bidders were asked for without a limit and 10 came back.
C11_Witness ==
    /\ Cardinality(DOMAIN borrowers) > 30
    /\ call.op = "borrowers"
    /\ call.limit = Some(100)
    /\ call.start_after = None
    /\ Len(call.data[1]) = 30
    /\ bid_call.op = "read_bids_by_collateral"
    /\ bid_call.arg = ListArg(None, None)
    /\ Len(bid_call.res[1].list) = 10

\* The pages of the borrowers, each started after the last key of the one
\* before, up to the first empty page.
RECURSIVE Pages(_, _, _)
Pages(storage, start_after, limit) ==
    LET page == read_borrowers(storage, start_after, limit).list
    IN  IF page = <<>> THEN <<>>
        ELSE page \o Pages(storage, Some(page[Len(page)].borrower), limit)

\* C12 (as claimed): a page of borrowers is in ascending byte order of the
\* identities, starts at the least stored key greater than start_after and
\* skips no stored key greater than it; paging on from the last key of each
\* page lists every stored record once.
C12_PageOrderAndResume ==
    (call.op = "borrowers" /\ call.res.kind = "Ok") =>
        LET page == call.data[1]
            listed == {page[i].borrower : i \in 1..Len(page)}
            after == {k \in DOMAIN borrowers :
                        call.start_after = None \/ LexLess(call.start_after[1], k)}
        IN  /\ \A i \in 1..Len(page) :
                  /\ page[i].borrower \in after
                  /\ page[i] = BorrowerResponse(page[i].borrower,
                                                borrowers[page[i].borrower].balance,
                                                borrowers[page[i].borrower].spendable)
                  /\ \A j \in (i + 1)..Len(page) :
                        LexLess(page[i].borrower, page[j].borrower)
            /\ \A k \in after \ listed :
                  /\ Len(page) = ClaimedLimit(call.limit)
                  /\ \A l \in listed : LexLess(l, k)
            /\ (call.start_after = None /\ ClaimedLimit(call.limit) > 0)
                  => LET all == Pages(borrowers, None, call.limit)
                     IN  /\ Len(all) = Cardinality(DOMAIN borrowers)
                         /\ {all[i].borrower : i \in 1..Len(all)} = DOMAIN borrowers

(***************************************************************************)
(* The bid book's properties.  In an action formula the unprimed tables    *)
(* are those before the call and bid_call' describes the call.             *)
(***************************************************************************)
BidPairs == Bidders \X Collaterals
HasBid(storage, b, c) == read_bid(storage, b, c).kind = "Ok"
NotFound == [kind |-> "GenericErr", bid |-> None, msg |-> NoBidsMsg]

\* C2 (as claimed): in every reachable state a primary Bid record exists for
\* (b, c) iff the by-bidder entry b -> c and the by-collateral entry c -> b
\* both exist.
C2_BidIffIndexEntries ==
    \A p \in BidPairs :
        HasBid(bid_storage, p[1], p[2])
            <=> (<<p[1], p[2]>> \in bid_by_user /\ <<p[2], p[1]>> \in bid_by_collateral)

\* C9 (as claimed): readBid(b, c) returns the bid of the latest placeBid(b, c)
\* that no removeBid(b, c) followed, and NotFound when (b, c) was never placed
\* or was removed last: nothing is found at the start, a placeBid(b, c, bid)
\* makes readBid(b, c) return bid, a removeBid(b, c) makes it NotFound, either
\* leaves what readBid returns for every other pair, and readBid itself
\* returns what the tables hold.
C9_ReadBidReturnsLatest ==
    /\ (bid_call.op = "instantiate"
            => \A p \in BidPairs : read_bid(bid_storage, p[1], p[2]) = NotFound)
    /\ [][LET b == bid_call'.bidder
              c == bid_call'.collateral_token
          IN  /\ bid_call'.op = "store_bid"
                    => read_bid(bid_storage', b, c)
                          = [kind |-> "Ok", bid |-> bid_call'.arg, msg |-> ""]
              /\ bid_call'.op = "remove_bid"
                    => read_bid(bid_storage', b, c) = NotFound
              /\ bid_call'.op \in {"store_bid", "remove_bid"}
                    => \A p \in BidPairs \ {<<b, c>>} :
                          read_bid(bid_storage', p[1], p[2])
                              = read_bid(bid_storage, p[1], p[2])
              /\ bid_call'.op = "read_bid"
                    => bid_call'.res = Some(read_bid(bid_storage, b, c))]_vars

\* C10 (as claimed): removeBid(b, c) again after a removeBid(b, c) changes
\* none of the three tables, and removeBid on a pair that has no bid changes
\* none of them either.
C10_RemoveBidIdempotent ==
    [][bid_call'.op = "remove_bid" =>
        LET b == bid_call'.bidder
            c == bid_call'.collateral_token
        IN  /\ remove_bid(bid_storage', b, c) = bid_storage'
            /\ ~HasBid(bid_storage, b, c) => bid_storage' = bid_storage]_vars

\* C13 (as claimed): after any placeBid/removeBid calls, listByUser(b) and
\* listByCollateral(c) with no start_after and a limit that covers the entries
\* succeed and return, in ascending key order, exactly one entry for each pair
\* whose bid exists, carrying what readBid returns for the pair.
C13_ListsJoinPrimary ==
    [][LET r == bid_call'.res[1]
           b == bid_call'.bidder
           c == bid_call'.collateral_token
       IN  /\ (bid_call'.op = "read_bids_by_user" /\ bid_call'.arg = ListArg(None, None))
                => LET cs == RangeFrom({x \in Collaterals : HasBid(bid_storage, b, x)}, None)
                   IN  /\ r.kind = "Ok"
                       /\ r.list = [i \in 1..Len(cs) |->
                            [collateral_token |-> cs[i], bidder |-> b,
                             amount |-> read_bid(bid_storage, b, cs[i]).bid[1].amount,
                             premium_rate |->
                                read_bid(bid_storage, b, cs[i]).bid[1].premium_rate]]
           /\ (bid_call'.op = "read_bids_by_collateral"
                    /\ bid_call'.arg = ListArg(None, None))
                => LET bs == RangeFrom({x \in Bidders : HasBid(bid_storage, x, c)}, None)
                   IN  /\ r.kind = "Ok"
                       /\ r.list = [i \in 1..Len(bs) |->
                            [collateral_token |-> c, bidder |-> bs[i],
                             amount |-> read_bid(bid_storage, bs[i], c).bid[1].amount,
                             premium_rate |->
                                read_bid(bid_storage, bs[i], c).bid[1].premium_rate]]]_vars

\* C18 (as claimed): placeBid on a pair that has a bid replaces that pair's
\* bid only and leaves both index tables as they were; on a pair without a
\* bid it adds one primary record, one by-bidder entry and one by-collateral
\* entry.
C18_PlaceBidUpsert ==
    [][bid_call'.op = "store_bid" =>
        LET b == bid_call'.bidder
            c == bid_call'.collateral_token
        IN  /\ read_bid(bid_storage', b, c).bid = bid_call'.arg
            /\ HasBid(bid_storage, b, c)
                 => /\ bid_by_user' = bid_by_user
                    /\ bid_by_collateral' = bid_by_collateral
                    /\ DOMAIN bid' = DOMAIN bid
                    /\ \A p \in BidPairs \ {<<b, c>>} :
                          read_bid(bid_storage', p[1], p[2])
                              = read_bid(bid_storage, p[1], p[2])
            /\ ~HasBid(bid_storage, b, c)
                 => /\ Cardinality(DOMAIN bid') = Cardinality(DOMAIN bid) + 1
                    /\ <<b, c>> \notin bid_by_user
                    /\ bid_by_user' = bid_by_user \cup {<<b, c>>}
                    /\ <<c, b>> \notin bid_by_collateral
                    /\ bid_by_collateral' = bid_by_collateral \cup {<<c, b>>}]_vars

\* C20 (as claimed): placeBid(b, c, ..) and removeBid(b, c) leave, for every
\* other pair, what readBid returns and the pair's two index entries.
C20_OtherPairsUntouched ==
    [][bid_call'.op \in {"store_bid", "remove_bid"} =>
        \A p \in BidPairs \ {<<bid_call'.bidder, bid_call'.collateral_token>>} :
            /\ read_bid(bid_storage', p[1], p[2]) = read_bid(bid_storage, p[1], p[2])
            /\ <<p[1], p[2]>> \in bid_by_user' <=> <<p[1], p[2]>> \in bid_by_user
            /\ <<p[2], p[1]>> \in bid_by_collateral'
                  <=> <<p[2], p[1]>> \in bid_by_collateral]_vars

(***************************************************************************)
(* The rate calculator's properties.  In an action formula rate_config is  *)
(* the Config before the call and rate_call' describes the call.           *)
(***************************************************************************)
\* C15 (as claimed): whatever Config is stored and whatever the inputs, the
\* emission rate returned lies in [emission_floor, emission_cap].
C15_RateWithinFloorAndCap ==
    rate_call.op = "ap_emission_rate" =>
        /\ rate_config.emission_floor <= rate_call.emission_rate[1]
        /\ rate_call.emission_rate[1] <= rate_config.emission_cap

\* C16: update_config by anyone but the owner of the stored Config fails with
\* Unauthorized and leaves the Config as it was; by the owner it succeeds and
\* sets each supplied field, the owner included, and no other field.
C16_UpdateConfig ==
    [][rate_call'.op = "update_config" =>
        LET msg == rate_call'.msg[1]
            Set(field) == IF msg[field] = None THEN rate_config[field] ELSE msg[field][1]
        IN  IF rate_call'.sender[1] # rate_config.owner
            THEN /\ rate_call'.res = "Unauthorized"
                 /\ rate_config' = rate_config
            ELSE /\ rate_call'.res = "Ok"
                 /\ \A field \in DOMAIN rate_config : rate_config'[field] = Set(field)]_vars

\* OwnerB, who can only have become owner by an earlier update, has just set
\* emission_cap alone: the floor is the one stored before.
C16_Witness ==
    /\ rate_call.op = "update_config"
    /\ rate_config.owner = OwnerB
    /\ rate_call.msg[1].owner = None
    /\ rate_call.sender = Some(OwnerB)
    /\ rate_call.res = "Ok"
    /\ rate_call.msg[1].emission_cap = Some(2)
    /\ rate_call.msg[1].emission_floor = None
    /\ rate_config.emission_cap = 2
    /\ rate_config.emission_floor = 4
====
